---- MODULE Spec2Model ----
(***************************************************************************)
(* Model of Envoy's BackwardsTrace (source/server/backtrace.h): a fixed    *)
(* buffer of MaxStackDepth raw return addresses plus a count, filled by    *)
(* capture() / captureFrom() through absl's stack walker and rendered by   *)
(* logTrace() through absl::Symbolize.                                     *)
(*                                                                         *)
(* A call stack is a sequence of program-counter values, innermost frame   *)
(* first.  The walker sees the frame of the capturing member function on   *)
(* top of the stack of its caller.                                         *)
(***************************************************************************)
EXTENDS Integers, Sequences, FiniteSets, TLC

VARIABLES
  stack_trace_,   \* void* stack_trace_[MaxStackDepth]
  stack_depth_,   \* int stack_depth_
  emitted,        \* the lines the last call handed to ENVOY_LOG, in order
  symtab,         \* the addresses absl::Symbolize can resolve in this process
  op,             \* history: the last member function called
  seen,           \* history: live stack of the caller of the last capture
  uctx,           \* history: interrupted stack of the last captureFrom context
  given,          \* history: arguments of the last logFault
  rendered,       \* history: lines of the last logTrace since the last capture
  nrender         \* history: logTrace calls since the last capture, up to 2

vars ==
  <<stack_trace_, stack_depth_, emitted, symtab, op, seen, uctx, given, rendered, nrender>>

\* static constexpr int MaxStackDepth = 64;
MaxStackDepth == 64

\* Bounds of the environment: the deepest "shallow" stack that is enumerated
\* and how far past MaxStackDepth the deep stacks go.
MaxShallow == 3
MaxOver == 1

Slots == 0 .. (MaxStackDepth - 1)

Min(a, b) == IF a < b THEN a ELSE b

Max(a, b) == IF a < b THEN b ELSE a

(***************************************************************************)
(* Addresses.  Each is a program counter inside the named function: the    *)
(* return address of the call that function has made.                      *)
(***************************************************************************)
PcMain == "0x1000"
PcF == "0x2000"
PcG == "0x3000"
PcH == "0x4000"
PcCapture == "0x5000"
PcCaptureFrom == "0x5800"
PcSigHandler == "0x6000"
PcLogHelper == "0x6800"
PcSigReturn == "0x7000"

\* Content of a slot of stack_trace_ that was never written: the constructor
\* BackwardsTrace() {} leaves the array indeterminate.
Indeterminate == "indeterminate"

Addresses ==
  {PcMain, PcF, PcG, PcH, PcCapture, PcCaptureFrom, PcSigHandler, PcLogHelper, PcSigReturn}

\* The name absl::Symbolize writes for an address it can resolve.
SymbolName(pc) ==
  CASE pc = PcMain -> "main"
    [] pc = PcF -> "f()"
    [] pc = PcG -> "g()"
    [] pc = PcH -> "h()"
    [] pc = PcCapture -> "Envoy::BackwardsTrace::capture()"
    [] pc = PcCaptureFrom -> "Envoy::BackwardsTrace::captureFrom()"
    [] pc = PcSigHandler -> "Envoy::SignalAction::sigHandler()"
    [] pc = PcLogHelper -> "Envoy::SignalAction::logFatal()"
    [] pc = PcSigReturn -> "__restore_rt"
    [] OTHER -> "(unknown)"

(***************************************************************************)
(* The environment: call stacks a caller can be on.  Stack(d, v) is the    *)
(* stack of depth d, innermost first: main calls f, f calls into a mutual  *)
(* recursion of g and h (v selects which of the two f calls).              *)
(***************************************************************************)
Variants == {0, 1}

FrameAtLevel(k, v) ==
  IF k = 1 THEN PcMain
  ELSE IF k = 2 THEN PcF
  ELSE IF (k + v) % 2 = 1 THEN PcG ELSE PcH

Stack(d, v) == [i \in 1 .. d |-> FrameAtLevel(d - i + 1, v)]

ShallowDepths == 0 .. MaxShallow

DeepDepths == (MaxStackDepth - 1) .. (MaxStackDepth + MaxOver)

CallStacks ==
  {Stack(d, v) : d \in ShallowDepths, v \in Variants} \cup {Stack(d, 0) : d \in DeepDepths}

\* Stacks a fatal signal can interrupt (the ucontext_t handed to the handler
\* describes one of these), and the frames of the handler above the signal
\* frame when it calls captureFrom().
CtxDepths == {1, MaxShallow} \cup ((MaxStackDepth - 3) .. (MaxStackDepth - 3 + MaxOver))

Contexts == {Stack(d, 0) : d \in CtxDepths}

HandlerStacks == {<<PcSigHandler>>, <<PcLogHelper, PcSigHandler>>}

SymTabs == {{PcMain, PcG, PcSigHandler}, {PcF, PcH, PcSigReturn, PcLogHelper}}

SigNames == {"SIGSEGV", "SIGABRT"}

FaultAddrs == {"0x0", PcG}

(***************************************************************************)
(* absl::GetStackTrace(result, max_depth, skip_count), applied to the raw  *)
(* walk `walk` whose first element is the frame of the function that       *)
(* calls it: skips the skip_count most recent frames, records up to        *)
(* max_depth of the following ones in result[0..n) and returns n.  Slots   *)
(* at n and beyond are not written.                                        *)
(***************************************************************************)
GetStackTrace(result, max_depth, skip_count, walk) ==
  LET n == Min(Max(Len(walk) - skip_count, 0), max_depth)
  IN  [n |-> n,
       result |-> [i \in Slots |-> IF i < n THEN walk[skip_count + i + 1] ELSE result[i]]]

(***************************************************************************)
(* absl::GetStackTraceWithContext(result, max_depth, skip_count, uc,       *)
(* min_dropped_frames = nullptr).  The walk starts at the current frame,   *)
(* as GetStackTrace does; uc (the ucontext_t of the signal) lets the       *)
(* walker step across the signal-return frame into the interrupted stack.  *)
(* `above` is the walk down to the signal handler.                         *)
(***************************************************************************)
GetStackTraceWithContext(result, max_depth, skip_count, uc, above) ==
  GetStackTrace(result, max_depth, skip_count, above \o <<PcSigReturn>> \o uc)

\* absl::Symbolize(pc, out, sizeof(out))
Symbolize(pc) ==
  IF pc \in symtab
    THEN [success |-> TRUE, out |-> SymbolName(pc)]
    ELSE [success |-> FALSE, out |-> Indeterminate]

\* fmt rendering of a void* argument ("0x..." digits of the address) and of a
\* char buffer argument (its text)
FormatPtr(p) == [ptr |-> p]

FormatStr(str) == [str |-> str]

\* ENVOY_LOG(critical, "Backtrace:")
HeaderLine == [fmt |-> "Backtrace:", args |-> <<>>]

\* ENVOY_LOG(critical, "#{}: {}", i, x)
FrameLine(i, x) == [fmt |-> "#{}: {}", args |-> <<i, x>>]

\* ENVOY_LOG(critical, "Caught {}, suspect faulting address {}", signame, addr)
FaultLine(signame, addr) ==
  [fmt |-> "Caught {}, suspect faulting address {}",
   args |-> <<FormatStr(signame), FormatPtr(addr)>>]

\* Body of the for loop of logTrace() for index i holding address pc:
\* the line it logs.
LogFrame_inverted(i, pc) ==
  LET r == Symbolize(pc)
  IN  IF ~r.success THEN FrameLine(i, FormatStr(r.out)) ELSE FrameLine(i, FormatPtr(pc))

LogFrame(i, pc) ==
  LET r == Symbolize(pc)
  IN  IF r.success THEN FrameLine(i, FormatStr(r.out)) ELSE FrameLine(i, FormatPtr(pc))

\* The for loop of logTrace(), from index i on, appending to the lines out.
RECURSIVE LogLoop(_, _, _, _)
LogLoop(i, trace, depth, out) ==
  IF i < depth
    THEN LogLoop(i + 1, trace, depth, Append(out, LogFrame(i, trace[i])))
    ELSE out

(***************************************************************************)
(* State after construction: BackwardsTrace() {} with stack_depth_{0}.     *)
(***************************************************************************)
Init ==
  /\ stack_trace_ = [i \in Slots |-> Indeterminate]
  /\ stack_depth_ = 0
  /\ emitted = <<>>
  /\ symtab \in SymTabs
  /\ op = "constructed"
  /\ seen = <<>>
  /\ uctx = <<>>
  /\ given = <<>>
  /\ rendered = <<>>
  /\ nrender = 0

\* History bookkeeping of a capturing call.
Captured(name, s, uc) ==
  /\ emitted' = <<>>
  /\ op' = name
  /\ seen' = s
  /\ uctx' = uc
  /\ given' = <<>>
  /\ rendered' = <<>>
  /\ nrender' = 0
  /\ UNCHANGED symtab

capture_skip0(s) ==
  LET r == GetStackTrace(stack_trace_, MaxStackDepth, 0, <<PcCapture>> \o s)
  IN  /\ stack_depth_' = r.n
      /\ stack_trace_' = r.result
      /\ Captured("capture", s, <<>>)

capture_skip2(s) ==
  LET r == GetStackTrace(stack_trace_, MaxStackDepth, 2, <<PcCapture>> \o s)
  IN  /\ stack_depth_' = r.n
      /\ stack_trace_' = r.result
      /\ Captured("capture", s, <<>>)

capture_overrun(s) ==
  LET r == GetStackTrace(stack_trace_, MaxStackDepth + 1, 1, <<PcCapture>> \o s)
  IN  /\ stack_depth_' = r.n
      /\ stack_trace_' = r.result
      /\ Captured("capture", s, <<>>)

capture_cumulative(s) ==
  LET r == GetStackTrace(stack_trace_, MaxStackDepth, 1, <<PcCapture>> \o s)
  IN  /\ stack_depth_' = Max(stack_depth_, r.n)
      /\ stack_trace_' = r.result
      /\ Captured("capture", s, <<>>)

\* void capture(), called from a function whose live stack is s
capture(s) ==
  LET r == GetStackTrace(stack_trace_, MaxStackDepth, 1, <<PcCapture>> \o s)
  IN  /\ stack_depth_' = r.n
      /\ stack_trace_' = r.result
      /\ Captured("capture", s, <<>>)

captureFrom_skip0(uc, hs) ==
  LET r == GetStackTraceWithContext(stack_trace_, MaxStackDepth, 0, uc,
                                    <<PcCaptureFrom>> \o hs)
  IN  /\ stack_depth_' = r.n
      /\ stack_trace_' = r.result
      /\ Captured("captureFrom", hs, uc)

\* void captureFrom(const void* context), called from a signal handler whose
\* own frames are hs and whose ucontext_t describes the interrupted stack uc
captureFrom(uc, hs) ==
  LET r == GetStackTraceWithContext(stack_trace_, MaxStackDepth, 1, uc,
                                    <<PcCaptureFrom>> \o hs)
  IN  /\ stack_depth_' = r.n
      /\ stack_trace_' = r.result
      /\ Captured("captureFrom", hs, uc)

\* History bookkeeping of a logTrace() call.
Rendered ==
  /\ rendered' = emitted'
  /\ nrender' = Min(nrender + 1, 2)
  /\ op' = "logTrace"
  /\ given' = <<>>
  /\ UNCHANGED <<symtab, seen, uctx>>

logTrace_whole_buffer ==
  /\ emitted' = LogLoop(0, stack_trace_, MaxStackDepth, <<HeaderLine>>)
  /\ UNCHANGED <<stack_trace_, stack_depth_>>
  /\ Rendered

logTrace_do_while ==
  /\ emitted' = LogLoop(0, stack_trace_, Max(stack_depth_, 1), <<HeaderLine>>)
  /\ UNCHANGED <<stack_trace_, stack_depth_>>
  /\ Rendered

logTrace_consuming ==
  /\ emitted' = LogLoop(0, stack_trace_, stack_depth_, <<HeaderLine>>)
  /\ stack_depth_' = 0
  /\ UNCHANGED stack_trace_
  /\ Rendered

\* void logTrace()
logTrace ==
  /\ emitted' = LogLoop(0, stack_trace_, stack_depth_, <<HeaderLine>>)
  /\ UNCHANGED <<stack_trace_, stack_depth_>>
  /\ Rendered

logFault_swapped(signame, addr) ==
  /\ emitted' = <<FaultLine(addr, signame)>>
  /\ op' = "logFault"
  /\ given' = <<signame, addr>>
  /\ UNCHANGED <<stack_trace_, stack_depth_, symtab, seen, uctx, rendered, nrender>>

\* void logFault(const char* signame, const void* addr)
logFault(signame, addr) ==
  /\ emitted' = <<FaultLine(signame, addr)>>
  /\ op' = "logFault"
  /\ given' = <<signame, addr>>
  /\ UNCHANGED <<stack_trace_, stack_depth_, symtab, seen, uctx, rendered, nrender>>

Next ==
  \/ \E s \in CallStacks : capture(s)
  \/ \E uc \in Contexts, hs \in HandlerStacks : captureFrom(uc, hs)
  \/ logTrace
  \/ \E signame \in SigNames, addr \in FaultAddrs : logFault(signame, addr)

Spec == Init /\ [][Next]_vars

(***************************************************************************)
(* Properties.                                                             *)
(***************************************************************************)

\* The valid part of the trace, frames[0..n), as a sequence.
Frames(n) == [i \in 1 .. n |-> stack_trace_[i - 1]]

Prefix(s, n) == SubSeq(s, 1, n)

\* The stack the walker of captureFrom() goes down after its own frame: the
\* handler's frames, the signal-return frame, the interrupted stack.
HandlerLive == seen \o <<PcSigReturn>> \o uctx

\* C1: after capture() on a caller stack of depth D <= MaxStackDepth,
\* stack_depth_ = D and frames[0..D) are the caller stack's addresses innermost
\* first: frame 0 is the immediate caller, only capture()'s own frame is skipped.
C1_CaptureWithinCapacity ==
  (op = "capture" /\ Len(seen) <= MaxStackDepth) =>
    /\ stack_depth_ = Len(seen)
    /\ Frames(stack_depth_) = seen
    /\ Len(seen) > 0 => stack_trace_[0] = seen[1]
    /\ \A i \in 0 .. (stack_depth_ - 1) : stack_trace_[i] # PcCapture

C1_Witness ==
  op = "capture" /\ Len(seen) = MaxStackDepth /\ stack_depth_ = MaxStackDepth

\* C2: 0 <= stack_depth_ <= MaxStackDepth in every state, and capture() on a
\* stack deeper than MaxStackDepth leaves stack_depth_ = MaxStackDepth with the
\* MaxStackDepth innermost frames and nothing logged.
C2_DepthBounded ==
  /\ 0 <= stack_depth_
  /\ stack_depth_ <= MaxStackDepth
  /\ (op = "capture" /\ Len(seen) > MaxStackDepth) =>
       /\ stack_depth_ = MaxStackDepth
       /\ Frames(MaxStackDepth) = Prefix(seen, MaxStackDepth)
       /\ emitted = <<>>

C2_Witness ==
  op = "capture" /\ Len(seen) > MaxStackDepth /\ stack_depth_ = MaxStackDepth

\* C3 as stated: capture() under main -> f -> g yields depth 2 with frame 0 the
\* return address in f and frame 1 the return address in main.
C3_Original ==
  (op = "capture" /\ seen = <<PcG, PcF, PcMain>>) =>
    /\ stack_depth_ = 2
    /\ stack_trace_[0] = PcF
    /\ stack_trace_[1] = PcMain

\* C3 amended: capture() under main -> f -> g yields depth 3: frame 0 is the
\* return address in g (the caller of capture()), frame 1 the one in f,
\* frame 2 the one in main.
C3_Scenario ==
  (op = "capture" /\ seen = <<PcG, PcF, PcMain>>) =>
    /\ stack_depth_ = 3
    /\ stack_trace_[0] = PcG
    /\ stack_trace_[1] = PcF
    /\ stack_trace_[2] = PcMain

C3_Witness ==
  op = "capture" /\ seen = <<PcG, PcF, PcMain>> /\ stack_trace_[0] = PcG

\* C4: logTrace() emits the header line first and then exactly stack_depth_
\* frame lines, the k-th about slot k-1 and carrying index k-1; no line is
\* emitted for a slot at stack_depth_ or beyond.
C4_RenderShape ==
  op = "logTrace" =>
    /\ Len(emitted) = stack_depth_ + 1
    /\ emitted[1] = HeaderLine
    /\ \A k \in 1 .. stack_depth_ :
         /\ emitted[k + 1].fmt = "#{}: {}"
         /\ emitted[k + 1].args[1] = k - 1
         /\ emitted[k + 1].args[2] \in
              {FormatStr(SymbolName(stack_trace_[k - 1])), FormatPtr(stack_trace_[k - 1])}

\* a render of a trace whose buffer still holds frames of a deeper capture
C4_Witness ==
  /\ op = "logTrace"
  /\ stack_depth_ > 0
  /\ stack_depth_ < MaxStackDepth
  /\ stack_trace_[stack_depth_] # Indeterminate

\* C5: in a render, the line of a frame the resolver resolves carries the
\* resolved name and not the raw address, the line of a frame it does not
\* resolve carries the raw address, and every frame gets its line.
C5_ResolveOrRaw ==
  op = "logTrace" =>
    /\ Len(emitted) = stack_depth_ + 1
    /\ \A i \in 0 .. (stack_depth_ - 1) :
         LET pc == stack_trace_[i]
             text == emitted[i + 2].args[2]
         IN  /\ pc \in symtab => (text = FormatStr(SymbolName(pc)) /\ text # FormatPtr(pc))
             /\ pc \notin symtab => text = FormatPtr(pc)

\* a render with an unresolved frame followed by a resolved one
C5_Witness ==
  /\ op = "logTrace"
  /\ \E i \in 0 .. (stack_depth_ - 2) :
       /\ stack_trace_[i] \notin symtab
       /\ stack_trace_[i + 1] \in symtab

\* C6: logTrace() on a trace of depth 0 emits the header line and nothing
\* else, for a fresh trace as for one whose capture walked no frame.
C6_EmptyRender ==
  (op = "logTrace" /\ stack_depth_ = 0) => emitted = <<HeaderLine>>

\* a render at depth 0 after a capture that found no frame, the buffer still
\* holding an earlier capture
C6_Witness ==
  /\ op = "logTrace"
  /\ stack_depth_ = 0
  /\ seen = <<>>
  /\ stack_trace_[0] # Indeterminate

\* C7: logFault(signame, addr) emits exactly one line, carrying signame and
\* addr, whatever the state, and leaves stack_trace_ and stack_depth_ as
\* they were.
C7_LogFault ==
  [][op' = "logFault" =>
       /\ Len(emitted') = 1
       /\ emitted'[1].args = <<FormatStr(given'[1]), FormatPtr(given'[2])>>
       /\ stack_trace_' = stack_trace_
       /\ stack_depth_' = stack_depth_]_vars

\* a logFault on a captured and already rendered trace
C7_Witness ==
  op = "logFault" /\ stack_depth_ > 0 /\ nrender > 0 /\ Len(emitted) = 1

FreshBuffer == [i \in Slots |-> Indeterminate]

FreshCapture ==
  IF op' = "capture"
    THEN GetStackTrace(FreshBuffer, MaxStackDepth, 1, <<PcCapture>> \o seen')
    ELSE GetStackTraceWithContext(FreshBuffer, MaxStackDepth, 1, uctx',
                                  <<PcCaptureFrom>> \o seen')

\* C9: a capture overwrites: after it, stack_depth_ and frames[0..stack_depth_)
\* are those of a fresh trace after that one capture, and a capture repeated
\* on the same stack changes neither stack_depth_ nor stack_trace_.
C9_Overwrite ==
  [][op' \in {"capture", "captureFrom"} =>
       \E fresh \in {FreshCapture} :
           /\ stack_depth_' = fresh.n
           /\ \A i \in 0 .. (stack_depth_' - 1) : stack_trace_'[i] = fresh.result[i]
           /\ (op = op' /\ seen = seen' /\ uctx = uctx') =>
                (stack_depth_' = stack_depth_ /\ stack_trace_' = stack_trace_)]_vars

\* a shallower capture over a deeper one
C9_Witness ==
  /\ op = "capture"
  /\ stack_depth_ > 0
  /\ stack_depth_ < MaxStackDepth
  /\ stack_trace_[stack_depth_] # Indeterminate

\* C10: logTrace() leaves stack_depth_ and stack_trace_ as they were, and a
\* logTrace() after another with no capture in between emits the same lines.
C10_RenderReadOnly ==
  [][op' = "logTrace" =>
       /\ stack_depth_' = stack_depth_
       /\ stack_trace_' = stack_trace_
       /\ nrender > 0 => emitted' = rendered]_vars

\* a second render of a captured trace
C10_Witness ==
  op = "logTrace" /\ nrender = 2 /\ stack_depth_ > 0 /\ emitted = rendered
====
